---- MODULE Spec2Model ----
\* A model of filetagging (src/filetagging/filetagging.py): the TagsFile store, its
\* load/flush lifecycle on a directory's tags.json, and the entry points built on it.
EXTENDS Integers, Sequences, FiniteSets, TLC

\* ---------------------------------------------------------------- universe
Dirs  == {"d1", "d2"}
Names == {"a", "b"}
Tags  == {"x", "y"}
\* Most array items in the tags.json files the model starts from, all directories
\* taken together.
MaxItems == 2
\* How many times the caller runs one entry point in a row.
MaxRuns == 2

VARIABLES
    fs,       \* fs[d][n]: what the name n is in directory d: "none", "file" or "dir"
    sidecar,  \* sidecar[d]: d's tags.json: [exists, doc], doc the parsed JSON value
    pc,       \* where the running caller stands
    call,     \* the entry point that runs and its arguments
    stores,   \* stores[i]: the i-th TagsFile object of the caller
    err,      \* the exception that is propagating, "none" when there is none
    pre,      \* fs and sidecar as they were when the call began
    last,     \* the last TagsFile method the caller ran, with the mapping before it
    out,      \* the lines the entry point has printed
    runs      \* how many times the entry point has been started

vars == <<fs, sidecar, pc, call, stores, err, pre, last, out, runs>>

\* ---------------------------------------------------------------- JSON values
EmptyMap == [k \in {} |-> {}]

Restrict(m, K) == [k \in K |-> m[k]]

\* A JSON string.
JStr(s) == [type |-> "str", val |-> s]

\* A JSON array of the items s.
JList(s) == [type |-> "list", items |-> s]

\* A JSON object with the members m.
JDict(m) == [type |-> "dict", map |-> m]

NoDoc == JDict(EmptyMap)

NoSidecar == [exists |-> FALSE, doc |-> NoDoc]

\* Every sequence of distinct elements that lists the set S: the orders list(S) can give.
Orders(S) ==
    {s \in [1..Cardinality(S) -> S] : \A i, j \in 1..Cardinality(S) : s[i] = s[j] => i = j}

\* Arrays of at most n tag strings, repetitions included.
TagArrays(n) ==
    UNION {{JList([i \in 1..len |-> JStr(s[i])]) : s \in [1..len -> Tags]} : len \in 0..n}

\* The schema-valid documents (object of file name -> array of strings) with arrays
\* of at most n items.
ValidDocs(n) ==
    UNION {{JDict(m) : m \in [K -> TagArrays(n)]} : K \in SUBSET Names}

\* Documents that break the schema: the root is an array, a value is a string, an
\* array holds a number.
MalformedDocs ==
    {[type |-> "list", map |-> EmptyMap]}
    \cup {JDict([k \in {n} |-> v]) :
            n \in Names,
            v \in {[type |-> "str", items |-> <<>>],
                   JList(<<[type |-> "int", val |-> "1"]>>)}}

\* The number of array items of the object members m over the keys K.
RECURSIVE CountItems(_, _)
CountItems(m, K) ==
    IF K = {} THEN 0
    ELSE LET k == CHOOSE k \in K : TRUE
         IN  Len(m[k].items) + CountItems(m, K \ {k})

\* ---------------------------------------------------------------- TagsFile
\* _validate_tags_data: the exception it raises on data, "none" when data is valid.
validate_error(data) ==
    IF data.type # "dict" THEN "AttributeError"
    ELSE IF \E k \in DOMAIN data.map : data.map[k].type # "list" THEN "TypeError"
    ELSE IF \E k \in DOMAIN data.map :
                \E i \in DOMAIN data.map[k].items : data.map[k].items[i].type # "str"
         THEN "TypeError"
    ELSE "none"

\* _validate_tags_data: the mapping it returns, every array turned into a set.
validate_tags_data(data) ==
    [k \in DOMAIN data.map |->
        {data.map[k].items[i].val : i \in DOMAIN data.map[k].items}]

\* _filter_missing_files filtering whether or not discard_missing_files was asked.
filter_missing_files_always(m, d, discard) ==
    Restrict(m, {k \in DOMAIN m : fs[d][k] # "none"})

\* _filter_missing_files on the mapping m of a store of directory d.
filter_missing_files(m, d, discard) ==
    IF discard
    THEN Restrict(m, {k \in DOMAIN m : fs[d][k] # "none"})
    ELSE m

\* __init__ with create_new taken as set whatever the caller passes.
init_error_always_creates(d, create_new) ==
    IF sidecar[d].exists THEN validate_error(sidecar[d].doc) ELSE "none"

\* TagsFile.__init__: the exception it raises, "none" when the store is built.
init_error(d, create_new) ==
    IF sidecar[d].exists THEN validate_error(sidecar[d].doc)
    ELSE IF create_new THEN "none"
    ELSE "FileNotFoundError"

\* TagsFile.__init__: self.tags of the store it builds.
init_tags(d, discard) ==
    filter_missing_files(
        IF sidecar[d].exists THEN validate_tags_data(sidecar[d].doc) ELSE EmptyMap,
        d, discard)

NoStore == [open |-> FALSE, dir |-> "d1", discard |-> FALSE, tags |-> EmptyMap, flushes |-> 0]

\* The TagsFile object __init__ leaves.
TagsFile(d, discard) ==
    [open |-> TRUE, dir |-> d, discard |-> discard, tags |-> init_tags(d, discard),
     flushes |-> 0]

\* TagsFile.get_tags raises KeyError on a name that is no key.
get_tags_error(m, filename) == IF filename \in DOMAIN m THEN "none" ELSE "KeyError"

get_tags(m, filename) == m[filename]

\* TagsFile.set_tags
set_tags(m, filename, tags) ==
    LET m1 == [k \in DOMAIN m \cup {filename} |-> IF k = filename THEN tags ELSE m[k]]
    IN  IF m1[filename] = {} THEN Restrict(m1, DOMAIN m1 \ {filename}) ELSE m1

\* add_tag with the file's set replaced by {tag} instead of grown by it.
add_tag_overwrite(m, filename, tag) ==
    [k \in DOMAIN m \cup {filename} |-> IF k = filename THEN {tag} ELSE m[k]]

\* add_tag with the tag toggled (set ^= {tag}) instead of added.
add_tag_toggle(m, filename, tag) ==
    IF filename \in DOMAIN m
    THEN [m EXCEPT ![filename] = (@ \ {tag}) \cup ({tag} \ @)]
    ELSE [k \in DOMAIN m \cup {filename} |-> IF k = filename THEN {tag} ELSE m[k]]

\* TagsFile.add_tag
add_tag(m, filename, tag) ==
    IF filename \in DOMAIN m
    THEN [m EXCEPT ![filename] = @ \cup {tag}]
    ELSE [k \in DOMAIN m \cup {filename} |-> IF k = filename THEN {tag} ELSE m[k]]

\* TagsFile.remove_tag raises KeyError on a name that is no key.
remove_tag_error(m, filename) == IF filename \in DOMAIN m THEN "none" ELSE "KeyError"

\* remove_tag without the deletion of an entry that became empty.
remove_tag_keep_empty(m, filename, tag) == [m EXCEPT ![filename] = @ \ {tag}]

\* TagsFile.remove_tag
remove_tag(m, filename, tag) ==
    LET m1 == [m EXCEPT ![filename] = @ \ {tag}]
    IN  IF m1[filename] = {} THEN Restrict(m1, DOMAIN m1 \ {filename}) ELSE m1

\* dumps with every array cut to its first item.
dumps_truncated(m) ==
    {JDict([k \in DOMAIN m |-> JList([i \in DOMAIN o[k] \cap {1} |-> JStr(o[k][i])])]) :
        o \in {o \in [DOMAIN m -> UNION {Orders(m[k]) : k \in DOMAIN m}] :
                  \A k \in DOMAIN m : o[k] \in Orders(m[k])}}

\* json.dumps({k: list(v) ...}, sort_keys=True): the documents it can give for the
\* mapping m; list(v) of a set gives its elements in an order the set decides.
dumps(m) ==
    {JDict([k \in DOMAIN m |-> JList([i \in DOMAIN o[k] |-> JStr(o[k][i])])]) :
        o \in {o \in [DOMAIN m -> UNION {Orders(m[k]) : k \in DOMAIN m}] :
                  \A k \in DOMAIN m : o[k] \in Orders(m[k])}}

\* __exit__ without the unlink of tags.json when the mapping is empty.
exit_sidecars_no_unlink(s) ==
    LET m == filter_missing_files(s.tags, s.dir, s.discard)
    IN  IF DOMAIN m # {}
        THEN {[exists |-> TRUE, doc |-> doc] : doc \in dumps(m)}
        ELSE {sidecar[s.dir]}

\* __exit__ merging its mapping into the one tags.json holds instead of replacing it.
exit_sidecars_merge(s) ==
    LET m0 == filter_missing_files(s.tags, s.dir, s.discard)
        old == IF sidecar[s.dir].exists /\ validate_error(sidecar[s.dir].doc) = "none"
               THEN validate_tags_data(sidecar[s.dir].doc)
               ELSE EmptyMap
        m == [k \in DOMAIN m0 \cup DOMAIN old |->
                (IF k \in DOMAIN m0 THEN m0[k] ELSE {})
                \cup (IF k \in DOMAIN old THEN old[k] ELSE {})]
    IN  IF DOMAIN m # {}
        THEN {[exists |-> TRUE, doc |-> doc] : doc \in dumps(m)}
        ELSE {NoSidecar}

\* TagsFile.__exit__: the values tags.json of the store s can have afterwards.
exit_sidecars(s) ==
    LET m == filter_missing_files(s.tags, s.dir, s.discard)
    IN  IF DOMAIN m # {}
        THEN {[exists |-> TRUE, doc |-> doc] : doc \in dumps(m)}
        ELSE {NoSidecar}

\* TagsFile.__exit__: the store object afterwards.
exit_store(s) ==
    [s EXCEPT !.open = FALSE,
              !.tags = filter_missing_files(s.tags, s.dir, s.discard),
              !.flushes = @ + 1]

\* ---------------------------------------------------------------- paths
\* A path: spelled absolute or relative, the directory it resolves into, and its
\* last component ("" when the path is the directory itself).
Path(abs, d, n) == [abs |-> abs, dir |-> d, name |-> n]

NoPath == Path(FALSE, "d1", "")

\* Path.is_dir
is_dir(p) == p.name = "" \/ fs[p.dir][p.name] = "dir"

\* Path.is_file
is_file(p) == p.name # "" /\ fs[p.dir][p.name] = "file"

\* Path.parent, compared as pathlib compares paths: by spelling.
parent(p) == <<p.abs, p.dir>>

\* mv_tagged_file: path2 once a directory destination has got the file's name.
mv_path2(c) == IF is_dir(c.dst) THEN Path(c.dst.abs, c.dst.dir, c.src.name) ELSE c.dst

\* mv_tagged_file: the rename branch (one store) is taken, not the move branch.
mv_same_parent(c) == parent(c.src) = parent(mv_path2(c))

NoCall == [op |-> "none", tag |-> "", src |-> NoPath, dst |-> NoPath,
           create_new |-> FALSE, discard |-> FALSE]

NoLast == [op |-> "none", name |-> "", tags |-> {}, before |-> EmptyMap]

NoPre == [fs |-> [d \in Dirs |-> [n \in Names |-> "none"]],
          sidecar |-> [d \in Dirs |-> NoSidecar]]

\* What tags.json of directory d holds, as a mapping of file name -> tag set, in the
\* sidecars sc; no tags.json holds no mapping entry.
Persisted(sc, d) ==
    IF sc[d].exists /\ validate_error(sc[d].doc) = "none"
    THEN validate_tags_data(sc[d].doc)
    ELSE EmptyMap

\* The tag set of file name f in the mapping m: empty when f is no key.
TagSet(m, f) == IF f \in DOMAIN m THEN m[f] ELSE {}

\* ---------------------------------------------------------------- a caller of TagsFile
\* with TagsFile(d, create_new, discard) as tags: the constructor runs.
With(d, create_new, discard) ==
    /\ pc = "idle"
    /\ call' = [NoCall EXCEPT !.op = "with", !.src = Path(FALSE, d, ""),
                            !.create_new = create_new, !.discard = discard]
    /\ pre' = [fs |-> fs, sidecar |-> sidecar]
    /\ err' = init_error(d, create_new)
    /\ IF init_error(d, create_new) = "none"
       THEN /\ stores' = [stores EXCEPT ![1] = TagsFile(d, discard)]
            /\ pc' = "scope"
       ELSE /\ stores' = stores
            /\ pc' = "failed"
    /\ UNCHANGED <<fs, sidecar, last, out, runs>>

\* tags.set_tags(f, ts) inside the with block.
SetTags(f, ts) ==
    /\ pc = "scope" /\ err = "none"
    /\ last' = [op |-> "set_tags", name |-> f, tags |-> ts, before |-> stores[1].tags]
    /\ stores' = [stores EXCEPT ![1].tags = set_tags(@, f, ts)]
    /\ UNCHANGED <<fs, sidecar, pc, call, err, pre, out, runs>>

\* add_tag writing tags.json at once instead of leaving it to __exit__.
AddTag_write_through(f, t) ==
    /\ pc = "scope" /\ err = "none"
    /\ last' = [op |-> "add_tag", name |-> f, tags |-> {t}, before |-> stores[1].tags]
    /\ stores' = [stores EXCEPT ![1].tags = add_tag(@, f, t)]
    /\ sidecar' \in {[sidecar EXCEPT ![stores[1].dir] = [exists |-> TRUE, doc |-> doc]] :
                       doc \in dumps(add_tag(stores[1].tags, f, t))}
    /\ UNCHANGED <<fs, pc, call, err, pre, out, runs>>

\* tags.add_tag(f, t) inside the with block.
AddTag(f, t) ==
    /\ pc = "scope" /\ err = "none"
    /\ last' = [op |-> "add_tag", name |-> f, tags |-> {t}, before |-> stores[1].tags]
    /\ stores' = [stores EXCEPT ![1].tags = add_tag(@, f, t)]
    /\ UNCHANGED <<fs, sidecar, pc, call, err, pre, out, runs>>

\* tags.remove_tag(f, t) inside the with block.
RemoveTag(f, t) ==
    /\ pc = "scope" /\ err = "none"
    /\ last' = [op |-> "remove_tag", name |-> f, tags |-> {t}, before |-> stores[1].tags]
    /\ err' = remove_tag_error(stores[1].tags, f)
    /\ IF remove_tag_error(stores[1].tags, f) = "none"
       THEN stores' = [stores EXCEPT ![1].tags = remove_tag(@, f, t)]
       ELSE stores' = stores
    /\ UNCHANGED <<fs, sidecar, pc, call, pre, out, runs>>

\* tags.get_tags(f) inside the with block; last.tags is the set returned.
GetTags(f) ==
    /\ pc = "scope" /\ err = "none"
    /\ err' = get_tags_error(stores[1].tags, f)
    /\ last' = [op |-> "get_tags", name |-> f,
                tags |-> IF get_tags_error(stores[1].tags, f) = "none"
                         THEN get_tags(stores[1].tags, f) ELSE {},
                before |-> stores[1].tags]
    /\ UNCHANGED <<fs, sidecar, pc, call, stores, pre, out, runs>>

\* The with block is left, normally or by the exception err: __exit__ runs.
ExitScope ==
    /\ pc = "scope"
    /\ sidecar' \in {[sidecar EXCEPT ![stores[1].dir] = sc] : sc \in exit_sidecars(stores[1])}
    /\ stores' = [stores EXCEPT ![1] = exit_store(@)]
    /\ pc' = "closed"
    /\ last' = NoLast
    /\ UNCHANGED <<fs, call, err, pre, out, runs>>

\* After the block: a new TagsFile is constructed on the same directory.
Reload(create_new) ==
    /\ pc = "closed"
    /\ err' = init_error(stores[1].dir, create_new)
    /\ IF init_error(stores[1].dir, create_new) = "none"
       THEN stores' = [stores EXCEPT ![2] = TagsFile(stores[1].dir, FALSE)]
       ELSE stores' = stores
    /\ pc' = "reloaded"
    /\ call' = [call EXCEPT !.op = "reload", !.create_new = create_new, !.discard = FALSE]
    /\ UNCHANGED <<fs, sidecar, pre, last, out, runs>>

\* ---------------------------------------------------------------- entry points
\* open_tags: the directory whose TagsFile it opens for filepath p (p itself when it
\* is a directory, else its parent).
open_tags(p) == p.dir

\* An entry point is entered with the arguments c. mv_tagged_file first asserts that
\* its file is a regular file.
Start(c) ==
    /\ call' = c
    /\ pre' = [fs |-> fs, sidecar |-> sidecar]
    /\ stores' = [i \in 1..2 |-> NoStore]
    /\ out' = <<>>
    /\ last' = NoLast
    /\ IF c.op = "mv_tagged_file" /\ ~is_file(c.src)
       THEN err' = "AssertionError" /\ pc' = "done"
       ELSE err' = "none" /\ pc' = "open1"
    /\ UNCHANGED <<fs, sidecar>>

\* add_tag(tag, filepath)
Call_add_tag(tag, p) ==
    /\ pc = "idle" /\ ~is_dir(p)
    /\ runs' = 1
    /\ Start([NoCall EXCEPT !.op = "add_tag", !.tag = tag, !.src = p])

\* rm_tag(tag, filepath)
Call_rm_tag(tag, p) ==
    /\ pc = "idle" /\ ~is_dir(p)
    /\ runs' = 1
    /\ Start([NoCall EXCEPT !.op = "rm_tag", !.tag = tag, !.src = p])

\* ls_tags(filepath), filepath a file path or a directory
Call_ls_tags(p) ==
    /\ pc = "idle" /\ (p.name = "" \/ ~is_dir(p))
    /\ runs' = 1
    /\ Start([NoCall EXCEPT !.op = "ls_tags", !.src = p])

\* filter_tags(tag, directory)
Call_filter_tags(tag, p) ==
    /\ pc = "idle" /\ p.name = ""
    /\ runs' = 1
    /\ Start([NoCall EXCEPT !.op = "filter_tags", !.tag = tag, !.src = p])

\* mv_tagged_file(file, destination), destination a file path or a directory
Call_mv_tagged_file(p1, p2) ==
    /\ pc = "idle" /\ p1.name # "" /\ (p2.name = "" \/ ~is_dir(p2))
    /\ runs' = 1
    /\ Start([NoCall EXCEPT !.op = "mv_tagged_file", !.src = p1, !.dst = p2])

\* The caller runs the same entry point with the same arguments again.
Rerun ==
    /\ pc = "done" /\ runs < MaxRuns
    /\ runs' = runs + 1
    /\ Start(call)

\* open_tags(filepath, ...) of the entry point's first (or only) with item:
\* create_new is set by add_tag alone.
Open1 ==
    /\ pc = "open1"
    /\ err' = init_error(open_tags(call.src), call.op = "add_tag")
    /\ IF init_error(open_tags(call.src), call.op = "add_tag") = "none"
       THEN /\ stores' = [stores EXCEPT ![1] = TagsFile(open_tags(call.src), FALSE)]
            /\ pc' = IF call.op = "mv_tagged_file" /\ ~mv_same_parent(call)
                     THEN "open2" ELSE "body"
       ELSE /\ stores' = stores
            /\ pc' = "done"
    /\ UNCHANGED <<fs, sidecar, call, pre, last, out, runs>>

\* mv_tagged_file, move branch: open_tags(destination, create_new=True). When it
\* raises, the first store's __exit__ still runs.
Open2 ==
    /\ pc = "open2"
    /\ err' = init_error(open_tags(call.dst), TRUE)
    /\ IF init_error(open_tags(call.dst), TRUE) = "none"
       THEN /\ stores' = [stores EXCEPT ![2] = TagsFile(open_tags(call.dst), FALSE)]
            /\ pc' = "body"
       ELSE /\ stores' = stores
            /\ pc' = "exit1"
    /\ UNCHANGED <<fs, sidecar, call, pre, last, out, runs>>

\* add_tag: tags.add_tag(key, tag)
Body_add_tag ==
    /\ pc = "body" /\ call.op = "add_tag"
    /\ stores' = [stores EXCEPT ![1].tags = add_tag(@, call.src.name, call.tag)]
    /\ pc' = "exit1"
    /\ UNCHANGED <<fs, sidecar, call, err, pre, last, out, runs>>

\* rm_tag: tags.remove_tag(key, tag)
Body_rm_tag ==
    /\ pc = "body" /\ call.op = "rm_tag"
    /\ err' = remove_tag_error(stores[1].tags, call.src.name)
    /\ IF remove_tag_error(stores[1].tags, call.src.name) = "none"
       THEN stores' = [stores EXCEPT ![1].tags = remove_tag(@, call.src.name, call.tag)]
       ELSE stores' = stores
    /\ pc' = "exit1"
    /\ UNCHANGED <<fs, sidecar, call, pre, last, out, runs>>

\* ls_tags on a directory: per file its name, its tags and an empty line, the files
\* in the order ko and the tags of file f in the order to[f].
RECURSIVE ls_lines(_, _)
ls_lines(ko, to) ==
    IF ko = <<>> THEN <<>>
    ELSE <<Head(ko)>> \o to[Head(ko)] \o <<"">> \o ls_lines(Tail(ko), to)

\* ls_tags: print the tags of the file, or of every file of the directory.
Body_ls_tags ==
    /\ pc = "body" /\ call.op = "ls_tags"
    /\ LET m == stores[1].tags
       IN  IF is_dir(call.src)
           THEN /\ err' = "none"
                /\ out' \in {ls_lines(ko, to) :
                               ko \in Orders(DOMAIN m),
                               to \in {o \in [DOMAIN m -> UNION {Orders(m[k]) : k \in DOMAIN m}] :
                                          \A k \in DOMAIN m : o[k] \in Orders(m[k])}}
           ELSE /\ err' = get_tags_error(m, call.src.name)
                /\ IF get_tags_error(m, call.src.name) = "none"
                   THEN out' \in Orders(get_tags(m, call.src.name))
                   ELSE out' = out
    /\ pc' = "exit1"
    /\ UNCHANGED <<fs, sidecar, call, stores, pre, last, runs>>

\* filter_tags reporting every file that has a tag at all (if file_tags).
Body_filter_tags_any ==
    /\ pc = "body" /\ call.op = "filter_tags"
    /\ out' \in Orders({f \in DOMAIN stores[1].tags : stores[1].tags[f] # {}})
    /\ pc' = "exit1"
    /\ UNCHANGED <<fs, sidecar, call, stores, err, pre, last, runs>>

\* filter_tags: print the files whose tag set holds the tag.
Body_filter_tags ==
    /\ pc = "body" /\ call.op = "filter_tags"
    /\ out' \in Orders({f \in DOMAIN stores[1].tags : call.tag \in stores[1].tags[f]})
    /\ pc' = "exit1"
    /\ UNCHANGED <<fs, sidecar, call, stores, err, pre, last, runs>>

\* copy_tags without tagfile1.set_tags(key1, set()).
copy_tags_keep_source(st, key1, key2, one) ==
    [st EXCEPT ![IF one THEN 1 ELSE 2].tags = set_tags(@, key2, get_tags(st[1].tags, key1))]

\* copy_tags with the source's tags added to the destination's instead of replacing them.
copy_tags_merge(st, key1, key2, one) ==
    IF one
    THEN [st EXCEPT ![1].tags = set_tags(set_tags(@, key2, TagSet(@, key2)
                                                     \cup get_tags(st[1].tags, key1)),
                                         key1, {})]
    ELSE [st EXCEPT ![2].tags = set_tags(@, key2, TagSet(@, key2)
                                             \cup get_tags(st[1].tags, key1)),
                    ![1].tags = set_tags(@, key1, {})]

\* mv_tagged_file: copy_tags(path1, path2, tagfile1, tagfile2), the two stores being
\* one and the same object in the rename branch.
copy_tags(st, key1, key2, one) ==
    IF one
    THEN [st EXCEPT ![1].tags = set_tags(set_tags(@, key2, get_tags(st[1].tags, key1)),
                                         key1, {})]
    ELSE [st EXCEPT ![2].tags = set_tags(@, key2, get_tags(st[1].tags, key1)),
                    ![1].tags = set_tags(@, key1, {})]

Body_mv_tagged_file ==
    /\ pc = "body" /\ call.op = "mv_tagged_file"
    /\ err' = get_tags_error(stores[1].tags, call.src.name)
    /\ IF get_tags_error(stores[1].tags, call.src.name) = "none"
       THEN stores' = copy_tags(stores, call.src.name, mv_path2(call).name,
                                mv_same_parent(call))
       ELSE stores' = stores
    /\ pc' = IF stores[2].open THEN "exit2" ELSE "exit1"
    /\ UNCHANGED <<fs, sidecar, call, pre, last, out, runs>>

\* The with statement is left: __exit__ of the store opened last runs first.
Exit2 ==
    /\ pc = "exit2"
    /\ sidecar' \in {[sidecar EXCEPT ![stores[2].dir] = sc] : sc \in exit_sidecars(stores[2])}
    /\ stores' = [stores EXCEPT ![2] = exit_store(@)]
    /\ pc' = "exit1"
    /\ UNCHANGED <<fs, call, err, pre, last, out, runs>>

\* Exit1 with the rename reached even while an exception propagates.
Exit1_rename_anyway ==
    /\ pc = "exit1"
    /\ sidecar' \in {[sidecar EXCEPT ![stores[1].dir] = sc] : sc \in exit_sidecars(stores[1])}
    /\ stores' = [stores EXCEPT ![1] = exit_store(@)]
    /\ pc' = IF call.op = "mv_tagged_file" THEN "rename" ELSE "done"
    /\ UNCHANGED <<fs, call, err, pre, last, out, runs>>

Exit1 ==
    /\ pc = "exit1"
    /\ sidecar' \in {[sidecar EXCEPT ![stores[1].dir] = sc] : sc \in exit_sidecars(stores[1])}
    /\ stores' = [stores EXCEPT ![1] = exit_store(@)]
    /\ pc' = IF call.op = "mv_tagged_file" /\ err = "none" THEN "rename" ELSE "done"
    /\ UNCHANGED <<fs, call, err, pre, last, out, runs>>

\* mv_tagged_file: path1.rename(path2)
Rename ==
    /\ pc = "rename"
    /\ fs' = [d \in Dirs |-> [n \in Names |->
                IF d = mv_path2(call).dir /\ n = mv_path2(call).name THEN "file"
                ELSE IF d = call.src.dir /\ n = call.src.name THEN "none"
                ELSE fs[d][n]]]
    /\ pc' = "done"
    /\ UNCHANGED <<sidecar, call, stores, err, pre, last, out, runs>>

\* ---------------------------------------------------------------- specifications
\* The tags.json files a directory can start with: none, any schema-valid one, or
\* a malformed one.
InitSidecars ==
    {NoSidecar}
    \cup {[exists |-> TRUE, doc |-> doc] : doc \in ValidDocs(MaxItems) \cup MalformedDocs}

\* The array items of the tags.json files sc of the directories D.
RECURSIVE TotalItems(_, _)
TotalItems(sc, D) ==
    IF D = {} THEN 0
    ELSE LET d == CHOOSE d \in D : TRUE
         IN  CountItems(sc[d].doc.map, DOMAIN sc[d].doc.map) + TotalItems(sc, D \ {d})

\* The directory the caller works in; "d2" is another directory, a destination of
\* mv_tagged_file.
Cwd == "d1"

InitCommon ==
    /\ pc = "idle"
    /\ call = NoCall
    /\ stores = [i \in 1..2 |-> NoStore]
    /\ err = "none"
    /\ pre = NoPre
    /\ last = NoLast
    /\ out = <<>>
    /\ runs = 0

\* The entry points, run on two directories.
Init ==
    /\ fs \in [Dirs -> [Names -> {"none", "file"}]]
    /\ \A d \in Dirs \ {Cwd}, n \in Names : fs[d][n] = "none"
    /\ sidecar \in [Dirs -> InitSidecars]
    /\ TotalItems(sidecar, Dirs) <= MaxItems
    /\ InitCommon

\* The paths the caller passes: files of the working directory, spelled relative,
\* and, as destinations, any directory or file name in it, the working directory
\* spelled relative or absolute.
CwdFiles == {Path(FALSE, Cwd, n) : n \in Names}

Destinations ==
    {Path(abs, d, n) : abs \in BOOLEAN, d \in Dirs, n \in Names \cup {""}}
    \ {Path(TRUE, d, n) : d \in Dirs \ {Cwd}, n \in Names \cup {""}}

Next ==
    \/ \E t \in Tags, p \in CwdFiles : Call_add_tag(t, p)
    \/ \E t \in Tags, p \in CwdFiles : Call_rm_tag(t, p)
    \/ \E p \in CwdFiles \cup {Path(FALSE, Cwd, "")} : Call_ls_tags(p)
    \/ \E t \in Tags : Call_filter_tags(t, Path(FALSE, Cwd, ""))
    \/ \E p1 \in CwdFiles, p2 \in Destinations : Call_mv_tagged_file(p1, p2)
    \/ Rerun
    \/ Open1
    \/ Open2
    \/ Body_add_tag
    \/ Body_rm_tag
    \/ Body_ls_tags
    \/ Body_filter_tags
    \/ Body_mv_tagged_file
    \/ Exit2
    \/ Exit1
    \/ Rename

Spec == Init /\ [][Next]_vars

\* One caller of the TagsFile class on a directory.
InitStore ==
    /\ fs \in [Dirs -> [Names -> {"none", "file"}]]
    /\ \A d \in Dirs \ {Cwd}, n \in Names : fs[d][n] = "none"
    /\ sidecar \in [Dirs -> InitSidecars]
    /\ \A d \in Dirs \ {Cwd} : sidecar[d] = NoSidecar
    /\ TotalItems(sidecar, Dirs) <= MaxItems
    /\ InitCommon

NextStore ==
    \/ \E create_new, discard \in BOOLEAN : With(Cwd, create_new, discard)
    \/ \E f \in Names, ts \in SUBSET Tags : SetTags(f, ts)
    \/ \E f \in Names, t \in Tags : AddTag(f, t)
    \/ \E f \in Names, t \in Tags : RemoveTag(f, t)
    \/ \E f \in Names : GetTags(f)
    \/ ExitScope
    \/ \E create_new \in BOOLEAN : Reload(create_new)

SpecStore == InitStore /\ [][NextStore]_vars

\* One caller of the TagsFile class on a directory in which a name can also be a
\* subdirectory.
InitKinds ==
    /\ fs \in [Dirs -> [Names -> {"none", "file", "dir"}]]
    /\ \A d \in Dirs \ {Cwd}, n \in Names : fs[d][n] = "none"
    /\ sidecar \in [Dirs -> InitSidecars]
    /\ \A d \in Dirs \ {Cwd} : sidecar[d] = NoSidecar
    /\ TotalItems(sidecar, Dirs) <= MaxItems
    /\ InitCommon

SpecKinds == InitKinds /\ [][NextStore]_vars

\* ---------------------------------------------------------------- two invocations
\* Two processes each run the entry point add_tag on the working directory, with
\* nothing to order their steps. In this specification pc, call, err, pre and last
\* are functions of the process, and stores[i] is the TagsFile of process i.
Procs == {1, 2}

\* Process i enters add_tag(tag, p).
RaceCall(i, tag, p) ==
    /\ pc[i] = "idle" /\ ~is_dir(p)
    /\ call' = [call EXCEPT ![i] = [NoCall EXCEPT !.op = "add_tag", !.tag = tag, !.src = p]]
    /\ pre' = [pre EXCEPT ![i] = [fs |-> fs, sidecar |-> sidecar]]
    /\ pc' = [pc EXCEPT ![i] = "open1"]
    /\ UNCHANGED <<fs, sidecar, stores, err, last, out, runs>>

\* Process i: open_tags(filepath, create_new=True) reads tags.json as it is now.
RaceOpen(i) ==
    /\ pc[i] = "open1"
    /\ err' = [err EXCEPT ![i] = init_error(open_tags(call[i].src), TRUE)]
    /\ IF init_error(open_tags(call[i].src), TRUE) = "none"
       THEN /\ stores' = [stores EXCEPT ![i] = TagsFile(open_tags(call[i].src), FALSE)]
            /\ pc' = [pc EXCEPT ![i] = "body"]
       ELSE /\ stores' = stores
            /\ pc' = [pc EXCEPT ![i] = "done"]
    /\ UNCHANGED <<fs, sidecar, call, pre, last, out, runs>>

\* Process i: tags.add_tag(key, tag) on its own store.
RaceBody(i) ==
    /\ pc[i] = "body"
    /\ last' = [last EXCEPT ![i] = [op |-> "add_tag", name |-> call[i].src.name,
                                    tags |-> {call[i].tag}, before |-> stores[i].tags]]
    /\ stores' = [stores EXCEPT ![i].tags = add_tag(@, call[i].src.name, call[i].tag)]
    /\ pc' = [pc EXCEPT ![i] = "exit1"]
    /\ UNCHANGED <<fs, sidecar, call, err, pre, out, runs>>

\* Process i: __exit__ of its store writes tags.json.
RaceExit(i) ==
    /\ pc[i] = "exit1"
    /\ sidecar' \in {[sidecar EXCEPT ![stores[i].dir] = sc] : sc \in exit_sidecars(stores[i])}
    /\ stores' = [stores EXCEPT ![i] = exit_store(@)]
    /\ pc' = [pc EXCEPT ![i] = "done"]
    /\ UNCHANGED <<fs, call, err, pre, last, out, runs>>

InitRace ==
    /\ fs \in [Dirs -> [Names -> {"none", "file"}]]
    /\ \A d \in Dirs \ {Cwd}, n \in Names : fs[d][n] = "none"
    /\ sidecar \in [Dirs -> InitSidecars]
    /\ \A d \in Dirs \ {Cwd} : sidecar[d] = NoSidecar
    /\ TotalItems(sidecar, Dirs) <= MaxItems
    /\ pc = [i \in Procs |-> "idle"]
    /\ call = [i \in Procs |-> NoCall]
    /\ stores = [i \in 1..2 |-> NoStore]
    /\ err = [i \in Procs |-> "none"]
    /\ pre = [i \in Procs |-> NoPre]
    /\ last = [i \in Procs |-> NoLast]
    /\ out = <<>>
    /\ runs = 0

NextRace ==
    \/ \E i \in Procs, t \in Tags, p \in CwdFiles : RaceCall(i, t, p)
    \/ \E i \in Procs : RaceOpen(i)
    \/ \E i \in Procs : RaceBody(i)
    \/ \E i \in Procs : RaceExit(i)

SpecRace == InitRace /\ [][NextRace]_vars

\* ---------------------------------------------------------------- claims
\* Directory d's tags.json, as it was when the call began, was absent or valid.
PreLoads(d) == ~pre.sidecar[d].exists \/ validate_error(pre.sidecar[d].doc) = "none"

\* An array of the document doc is empty.
HasEmptyArray(doc) == \E k \in DOMAIN doc.map : Len(doc.map[k].items) = 0

\* The tag strings in the order sorted() gives them.
SortedTags == <<"x", "y">>

\* The JSON array items lists tag strings in strictly ascending order.
IsSortedArray(items) ==
    \A i, j \in DOMAIN items :
        i < j => \E p, q \in DOMAIN SortedTags :
                    /\ p < q
                    /\ SortedTags[p] = items[i].val
                    /\ SortedTags[q] = items[j].val

\* C1: in every state of a TagsFile store, and in every tags.json its __exit__ has
\* written, a file name is a key only with a non-empty tag set: no key maps to the
\* empty set and no empty array is persisted. (The code breaks it: an empty array
\* of a schema-valid tags.json is loaded as a key with the empty set.)
C1_KeyIffNonEmpty ==
    /\ \A i \in 1..2 : stores[i].open =>
          \A k \in DOMAIN stores[i].tags : stores[i].tags[k] # {}
    /\ (pc = "closed" /\ sidecar[stores[1].dir].exists) =>
          ~HasEmptyArray(sidecar[stores[1].dir].doc)

\* C5: round trip: after a store was closed, a new TagsFile constructed on the same
\* directory holds the mapping of the closed store (same keys, equal tag sets); it
\* is built whenever tags.json is there or create_new is set, so an empty closed
\* mapping reloads with create_new as the empty mapping.
C5_RoundTrip ==
    pc = "reloaded" =>
        /\ (err = "none") = (call.create_new \/ DOMAIN stores[1].tags # {})
        /\ err = "none" => stores[2].open /\ stores[2].tags = stores[1].tags
        /\ err # "none" => err = "FileNotFoundError"

C5_Witness ==
    /\ pc = "reloaded" /\ err = "none"
    /\ stores[2].tags = stores[1].tags
    /\ \E k \in DOMAIN stores[2].tags : Cardinality(stores[2].tags[k]) = 2
    /\ Persisted(pre.sidecar, stores[1].dir) # stores[1].tags

\* C6: after a store is closed with an empty mapping tags.json does not exist in
\* its directory (deleted if it was there, not written if it was not); closed with
\* a non-empty mapping, tags.json exists and holds that mapping.
C6_EmptyMeansNoSidecar ==
    pc = "closed" =>
        LET s == stores[1]
        IN  /\ DOMAIN s.tags = {} => ~sidecar[s.dir].exists
            /\ DOMAIN s.tags # {} =>
                  sidecar[s.dir].exists /\ Persisted(sidecar, s.dir) = s.tags

C6_Witness ==
    /\ pc = "closed"
    /\ DOMAIN stores[1].tags = {}
    /\ pre.sidecar[stores[1].dir].exists
    /\ DOMAIN Persisted(pre.sidecar, stores[1].dir) # {}
    /\ ~sidecar[stores[1].dir].exists

\* C7: after remove_tag(f, t) on a store where f has an entry, the tag set of f
\* does not contain t: it is the previous set without t, and when nothing is left
\* the entry of f is gone and get_tags(f) raises KeyError; every other file's
\* entry is unchanged.
C7_RemoveTag ==
    (last.op = "remove_tag" /\ last.name \in DOMAIN last.before) =>
        LET m == stores[1].tags
            f == last.name
            rest == last.before[f] \ last.tags
        IN  /\ err = "none"
            /\ last.tags \cap TagSet(m, f) = {}
            /\ rest = {} => f \notin DOMAIN m /\ get_tags_error(m, f) = "KeyError"
            /\ rest # {} => f \in DOMAIN m /\ get_tags(m, f) = rest
            /\ \A g \in Names \ {f} :
                  /\ (g \in DOMAIN m) = (g \in DOMAIN last.before)
                  /\ g \in DOMAIN m => m[g] = last.before[g]

C7_Witness ==
    /\ last.op = "remove_tag"
    /\ last.name \in DOMAIN last.before
    /\ last.before[last.name] = last.tags
    /\ last.name \notin DOMAIN stores[1].tags
    /\ DOMAIN stores[1].tags # {}

\* C8: remove_tag(f, t) with t no tag of f, f having no entry included, raises
\* nothing and leaves the mapping unchanged. (The code breaks it: it raises
\* KeyError when f has no entry.)
C8_RemoveAbsentIsNoOp ==
    (last.op = "remove_tag" /\ last.tags \cap TagSet(last.before, last.name) = {}) =>
        err = "none" /\ stores[1].tags = last.before

\* C9: after add_tag(f, t) the tag set of f is its previous set (empty when f had
\* no entry) with t added, so get_tags(f) contains t, and every other file's entry
\* is unchanged.
C9_AddTag ==
    last.op = "add_tag" =>
        LET m == stores[1].tags
            f == last.name
        IN  /\ err = "none"
            /\ get_tags_error(m, f) = "none"
            /\ get_tags(m, f) = TagSet(last.before, f) \cup last.tags
            /\ \A g \in Names \ {f} :
                  /\ (g \in DOMAIN m) = (g \in DOMAIN last.before)
                  /\ g \in DOMAIN m => m[g] = last.before[g]

C9_Witness ==
    /\ last.op = "add_tag"
    /\ last.name \in DOMAIN last.before
    /\ last.before[last.name] # {}
    /\ last.tags \cap last.before[last.name] = {}
    /\ DOMAIN stores[1].tags = Names
    /\ TagSet(stores[1].tags, last.name) = Tags

\* C2: move within one directory: when mv_tagged_file(a, b) is called with two
\* different names of one directory (the paths having the same parent) and returns,
\* the directory's tags.json gives b exactly the tag set S that a had before the
\* call, whatever b had, and has no entry for a.
C2_MoveWithinDirectory ==
    (/\ pc = "done" /\ call.op = "mv_tagged_file" /\ err = "none"
     /\ mv_same_parent(call)
     /\ call.src.name # mv_path2(call).name) =>
        LET d == call.src.dir
            S == TagSet(Persisted(pre.sidecar, d), call.src.name)
            m == Persisted(sidecar, d)
        IN  /\ call.src.name \in DOMAIN Persisted(pre.sidecar, d)
            /\ TagSet(m, mv_path2(call).name) = S
            /\ S # {} => mv_path2(call).name \in DOMAIN m
            /\ call.src.name \notin DOMAIN m

C2_Witness ==
    /\ pc = "done" /\ call.op = "mv_tagged_file" /\ err = "none"
    /\ mv_same_parent(call)
    /\ call.src.name # mv_path2(call).name
    /\ call.src.name \in DOMAIN Persisted(pre.sidecar, call.src.dir)
    /\ mv_path2(call).name \in DOMAIN Persisted(pre.sidecar, call.src.dir)
    /\ Persisted(pre.sidecar, call.src.dir)[call.src.name]
         # Persisted(pre.sidecar, call.src.dir)[mv_path2(call).name]
    /\ Persisted(pre.sidecar, call.src.dir)[call.src.name] # {}
    /\ Persisted(sidecar, call.src.dir)
         = [k \in {mv_path2(call).name} |->
               Persisted(pre.sidecar, call.src.dir)[call.src.name]]
    /\ fs[call.src.dir][call.src.name] = "none"

\* C3: move across directories: when mv_tagged_file moves a, with tag set S in
\* directory D1's tags.json, to the name b of another directory D2 and returns,
\* D2's tags.json gives b exactly S (and exists, created if it was missing, when S
\* is not empty) and D1's tags.json has no entry for a (and is deleted if a was its
\* only entry).
C3_MoveAcrossDirectories ==
    (/\ pc = "done" /\ call.op = "mv_tagged_file" /\ err = "none"
     /\ call.src.dir # mv_path2(call).dir) =>
        LET D1 == call.src.dir
            D2 == mv_path2(call).dir
            S == TagSet(Persisted(pre.sidecar, D1), call.src.name)
        IN  /\ call.src.name \in DOMAIN Persisted(pre.sidecar, D1)
            /\ TagSet(Persisted(sidecar, D2), mv_path2(call).name) = S
            /\ S # {} => sidecar[D2].exists
            /\ call.src.name \notin DOMAIN Persisted(sidecar, D1)
            /\ DOMAIN Persisted(pre.sidecar, D1) = {call.src.name} => ~sidecar[D1].exists

C3_Witness ==
    /\ pc = "done" /\ call.op = "mv_tagged_file" /\ err = "none"
    /\ call.src.dir # mv_path2(call).dir
    /\ ~pre.sidecar[mv_path2(call).dir].exists
    /\ sidecar[mv_path2(call).dir].exists
    /\ TagSet(Persisted(sidecar, mv_path2(call).dir), mv_path2(call).name) = Tags
    /\ TagSet(Persisted(pre.sidecar, call.src.dir), call.src.name) = Tags
    /\ ~sidecar[call.src.dir].exists
    /\ fs[mv_path2(call).dir][mv_path2(call).name] = "file"

\* C4: in mv_tagged_file the file is renamed only as the last step, after the tags
\* were transferred in the store(s) and the store(s) closed; when the call fails
\* (no tags.json in the source directory, no entry for the source name), no file is
\* renamed and every directory's tags.json holds the mapping it held before.
C4_RenameAfterTransfer ==
    call.op = "mv_tagged_file" =>
        LET a == call.src.name
            b == mv_path2(call).name
            one == mv_same_parent(call)
            S == TagSet(Persisted(pre.sidecar, call.src.dir), a)
            dest == IF one THEN stores[1] ELSE stores[2]
        IN  /\ pc # "done" => fs = pre.fs
            /\ pc = "rename" =>
                  /\ err = "none"
                  /\ \A i \in 1..2 : ~stores[i].open
                  /\ a \notin DOMAIN stores[1].tags
                  /\ (~one \/ a # b) => TagSet(dest.tags, b) = S
            /\ (pc = "done" /\ err # "none") =>
                  /\ fs = pre.fs
                  /\ \A d \in Dirs :
                        /\ Persisted(sidecar, d) = Persisted(pre.sidecar, d)
                        /\ ~PreLoads(d) => sidecar[d] = pre.sidecar[d]

C4_Witness ==
    /\ pc = "done" /\ call.op = "mv_tagged_file" /\ err = "KeyError"
    /\ call.src.dir # mv_path2(call).dir
    /\ fs = pre.fs /\ fs[call.src.dir][call.src.name] = "file"
    /\ DOMAIN Persisted(sidecar, call.src.dir) # {}
    /\ stores[1].flushes = 1 /\ stores[2].flushes = 1
    /\ ~sidecar[mv_path2(call).dir].exists

\* C10: add_tag is idempotent at both levels: when the entry point add_tag(tag,
\* path) runs a second time, TagsFile.add_tag leaves the mapping as the first run
\* left it, and the mapping persisted after the second run is the one persisted
\* after the first (tags.json untouched when it is malformed and both runs fail).
C10_AddTagIdempotent ==
    (call.op = "add_tag" /\ runs >= 2) =>
        LET d == call.src.dir
        IN  /\ PreLoads(d) => err = "none"
            /\ pc = "done" => (err = "none") = PreLoads(d)
            /\ (pc \in {"exit1", "done"} /\ PreLoads(d)) =>
                  stores[1].tags = Persisted(pre.sidecar, d)
            /\ (pc = "done" /\ PreLoads(d)) =>
                  /\ sidecar[d].exists
                  /\ Persisted(sidecar, d) = Persisted(pre.sidecar, d)
                  /\ call.tag \in TagSet(Persisted(sidecar, d), call.src.name)
            /\ (pc = "done" /\ ~PreLoads(d)) => sidecar[d] = pre.sidecar[d]

C10_Witness ==
    /\ call.op = "add_tag" /\ runs = 2 /\ pc = "done"
    /\ TagSet(Persisted(sidecar, call.src.dir), call.src.name) = Tags
    /\ TagSet(Persisted(pre.sidecar, call.src.dir), call.src.name) = Tags

\* C11: constructing a TagsFile on a tags.json that breaks the schema (the root is
\* no object, a value is no array, an array holds a non-string) fails with the one
\* malformed-data exception, TypeError; no store is built and tags.json is left as
\* it was. (The code breaks it: a root that is no object raises AttributeError.)
C11_MalformedLoadFails ==
    (/\ call.op = "with"
     /\ pre.sidecar[call.src.dir].exists
     /\ pre.sidecar[call.src.dir].doc \in MalformedDocs) =>
        /\ pc = "failed"
        /\ err = "TypeError"
        /\ stores[1] = NoStore
        /\ sidecar = pre.sidecar

\* C12: on a directory without tags.json the entry point add_tag(tag, path)
\* succeeds and leaves a tags.json whose mapping is exactly {name(path): {tag}};
\* rm_tag, ls_tags and filter_tags fail with FileNotFoundError and the directory
\* is without tags.json at every step of the call.
C12_SidecarCreationPolicy ==
    (pc # "idle" /\ ~pre.sidecar[call.src.dir].exists) =>
        LET d == call.src.dir
        IN  /\ call.op = "add_tag" =>
                  /\ err = "none"
                  /\ pc = "done" =>
                        /\ sidecar[d].exists
                        /\ Persisted(sidecar, d) = [k \in {call.src.name} |-> {call.tag}]
            /\ call.op \in {"rm_tag", "ls_tags", "filter_tags"} =>
                  /\ ~sidecar[d].exists
                  /\ pc \in {"open1", "done"}
                  /\ pc = "done" => err = "FileNotFoundError"

C12_Witness ==
    /\ pc = "done" /\ call.op = "add_tag" /\ runs = 1
    /\ ~pre.sidecar[call.src.dir].exists
    /\ sidecar[call.src.dir].exists
    /\ Persisted(sidecar, call.src.dir) = [k \in {call.src.name} |-> {call.tag}]

\* C13: get_tags(f) returns the tag set of f when f has at least one tag and
\* raises KeyError when f has no tag or was never tagged; it never returns the
\* empty set and never changes the mapping. (The code breaks it through C1: a key
\* loaded from an empty array has the empty set, which get_tags returns.)
C13_GetTags ==
    last.op = "get_tags" =>
        LET S == TagSet(last.before, last.name)
        IN  /\ stores[1].tags = last.before
            /\ S # {} => err = "none" /\ last.tags = S
            /\ S = {} => err = "KeyError"
            /\ err = "none" => last.tags # {}

\* C14: a store opened by a with statement is flushed exactly once, when the block
\* is left, whether it ends normally or by an exception and however many methods
\* ran: inside the block nothing has been flushed and tags.json is as it was when
\* the block began; leaving the block is always possible and is one __exit__, which
\* writes (or unlinks) tags.json and lets the exception, if any, propagate.
C14_FlushedOnceAtExit ==
    /\ [](pc = "scope" =>
            /\ stores[1].open /\ stores[1].flushes = 0
            /\ sidecar = pre.sidecar
            /\ ENABLED ExitScope)
    /\ [](pc \in {"closed", "reloaded"} => ~stores[1].open /\ stores[1].flushes = 1)
    /\ [][(pc = "scope" /\ pc' # "scope") =>
            /\ pc' = "closed"
            /\ err' = err
            /\ stores'[1].flushes = 1
            /\ sidecar'[stores[1].dir] \in exit_sidecars(stores[1])]_vars

C14_Witness ==
    /\ pc = "closed" /\ err = "KeyError"
    /\ stores[1].flushes = 1
    /\ sidecar[stores[1].dir].exists
    /\ Persisted(sidecar, stores[1].dir) # Persisted(pre.sidecar, stores[1].dir)

\* C15: when source and destination of mv_tagged_file lie in one directory, however
\* the two paths are spelled, one store is opened for that directory and no second
\* one, and after the call the destination name has the tag set the source name
\* had and the source name has no entry. (The code breaks it: it compares the
\* parents as spelled and opens two stores on one tags.json.)
C15_OneStorePerDirectory ==
    (call.op = "mv_tagged_file" /\ call.src.dir = mv_path2(call).dir) =>
        LET d == call.src.dir
            a == call.src.name
            b == mv_path2(call).name
        IN  /\ pc \notin {"open2", "exit2"}
            /\ stores[2] = NoStore
            /\ (pc = "done" /\ err = "none" /\ a # b) =>
                  /\ TagSet(Persisted(sidecar, d), b) = TagSet(Persisted(pre.sidecar, d), a)
                  /\ a \notin DOMAIN Persisted(sidecar, d)

\* C17: the tags.json a flush writes is a function of the mapping alone: a store
\* about to be closed has one document it can write, and in the document written
\* every tag array is sorted. (The code breaks it: it writes list(v) of each set,
\* in the order the set iterates.)
C17_SortedDeterministicFlush ==
    /\ pc = "scope" => Cardinality(exit_sidecars(stores[1])) = 1
    /\ (pc = "closed" /\ sidecar[stores[1].dir].exists) =>
          \A k \in DOMAIN sidecar[stores[1].dir].doc.map :
              IsSortedArray(sidecar[stores[1].dir].doc.map[k].items)

\* C18: filter_tags(tag, directory) on a directory with a valid tags.json prints
\* exactly the file names whose tag set in it holds the tag, each once, and raises
\* nothing; when no file has the tag it prints nothing.
C18_FilterTags ==
    (/\ call.op = "filter_tags" /\ pc \in {"exit1", "done"}
     /\ pre.sidecar[call.src.dir].exists /\ PreLoads(call.src.dir)) =>
        LET m == Persisted(pre.sidecar, call.src.dir)
            want == {f \in DOMAIN m : call.tag \in m[f]}
        IN  /\ err = "none"
            /\ {out[i] : i \in DOMAIN out} = want
            /\ Len(out) = Cardinality(want)

C18_Witness ==
    /\ call.op = "filter_tags" /\ pc = "done" /\ err = "none"
    /\ DOMAIN Persisted(pre.sidecar, call.src.dir) = Names
    /\ Len(out) = 1
    /\ call.tag \in TagSet(Persisted(pre.sidecar, call.src.dir), out[1])

\* C20: mv_tagged_file of a tagged file onto its own path (the destination is the
\* source, or the directory that holds it) leaves the file's tag set in tags.json
\* as it was. (The code breaks it: copy_tags sets the destination's tags and then
\* empties the source's, which is the same entry.)
C20_MoveOntoItself ==
    (/\ call.op = "mv_tagged_file" /\ pc = "done" /\ err = "none"
     /\ call.src.dir = mv_path2(call).dir
     /\ call.src.name = mv_path2(call).name) =>
        TagSet(Persisted(sidecar, call.src.dir), call.src.name)
            = TagSet(Persisted(pre.sidecar, call.src.dir), call.src.name)

\* C16: when a store opened with discard_missing_files is closed, every key of the
\* mapping it leaves in tags.json names a regular file of its directory: entries of
\* names that are absent or are no files are dropped, and the entries of existing
\* files are kept with their tag sets. (The code breaks it: it keeps every name
\* that exists, a subdirectory included.)
C16_DiscardMissingFiles ==
    [][(pc = "scope" /\ pc' = "closed" /\ stores[1].discard) =>
          LET d == stores[1].dir
              m == Persisted(sidecar', d)
          IN  /\ \A k \in DOMAIN m : fs[d][k] = "file"
              /\ \A k \in DOMAIN stores[1].tags :
                    fs[d][k] = "file" => k \in DOMAIN m /\ m[k] = stores[1].tags[k]]_vars

\* C19: two add_tag invocations on one directory that nothing synchronises: every
\* flush leaves in tags.json exactly the mapping of the store that is flushed,
\* whatever the file held (the last writer wins), so once both have returned the
\* file holds the mapping of one of them, each mapping being what that process
\* loaded plus its own tag; the tag one process added is missing exactly when the
\* file is the other's mapping and the other loaded before that tag was written.
\* The interleaving that loses an update exists: C19_Witness.
C19_LastWriterWins ==
    /\ [](\A i \in Procs :
            (/\ pc[1] = "done" /\ pc[2] = "done"
             /\ err[1] = "none" /\ err[2] = "none") =>
                LET j == 3 - i
                    m == Persisted(sidecar, Cwd)
                IN  /\ m \in {stores[1].tags, stores[2].tags}
                    /\ stores[i].tags
                         = add_tag(last[i].before, call[i].src.name, call[i].tag)
                    /\ call[i].tag \notin TagSet(m, call[i].src.name) =>
                          /\ m = stores[j].tags
                          /\ call[j].tag \in TagSet(m, call[j].src.name)
                          /\ call[i].tag \notin TagSet(last[j].before, call[i].src.name))
    /\ [][\A i \in Procs :
            (pc[i] = "exit1" /\ pc'[i] = "done") =>
                Persisted(sidecar', Cwd) = stores[i].tags]_vars

C19_Witness ==
    /\ pc[1] = "done" /\ pc[2] = "done"
    /\ err[1] = "none" /\ err[2] = "none"
    /\ stores[1].flushes = 1 /\ stores[2].flushes = 1
    /\ call[1].src.name = call[2].src.name
    /\ call[1].tag # call[2].tag
    /\ ~pre[1].sidecar[Cwd].exists /\ ~pre[2].sidecar[Cwd].exists
    /\ Persisted(sidecar, Cwd) = [k \in {call[2].src.name} |-> {call[2].tag}]

\* C21: the read-only entry points ls_tags and filter_tags leave the persisted
\* mapping as it was: at every step of the call, their __exit__ and its flush
\* included, and whether they return or raise, the mapping tags.json holds equals
\* the one it held when the call began (same keys, equal tag sets), and a
\* tags.json that was there with a non-empty mapping is still there.
C21_ReadOnlyEntryPoints ==
    call.op \in {"ls_tags", "filter_tags"} =>
        LET d == call.src.dir
        IN  /\ Persisted(sidecar, d) = Persisted(pre.sidecar, d)
            /\ (pre.sidecar[d].exists /\ DOMAIN Persisted(pre.sidecar, d) # {}) =>
                  sidecar[d].exists
            /\ ~PreLoads(d) => sidecar[d] = pre.sidecar[d]
            /\ fs = pre.fs
            /\ \A e \in Dirs \ {d} : sidecar[e] = pre.sidecar[e]

C21_Witness ==
    /\ call.op \in {"ls_tags", "filter_tags"} /\ pc = "done"
    /\ stores[1].flushes = 1
    /\ DOMAIN Persisted(pre.sidecar, call.src.dir) = Names
    /\ sidecar[call.src.dir].exists
    /\ sidecar[call.src.dir] # pre.sidecar[call.src.dir]
    /\ Persisted(sidecar, call.src.dir) = Persisted(pre.sidecar, call.src.dir)

====
